---- MODULE Spec2Model ----
(***************************************************************************)
(* The profile-management handlers of authors/apps/profiles/views.py and   *)
(* the account endpoints exercised by authentication/tests/test_api.py,    *)
(* as a state machine over the stored users, the stored profiles and the   *)
(* process-wide class attribute APIException.status_code.                  *)
(***************************************************************************)
EXTENDS Integers, Sequences, FiniteSets, TLC

\* ------------------------------------------------------------------ bounds
\* Longest username_id path segment given to the retrieve-by-id view.
MaxIdLen == 2

\* ------------------------------------------------------- program constants
HTTP_200_OK == 200
HTTP_201_CREATED == 201
HTTP_400_BAD_REQUEST == 400
HTTP_403_FORBIDDEN == 403
HTTP_404_NOT_FOUND == 404
\* rest_framework.exceptions.APIException.status_code as imported: the status
\* of an APIException raised before any handler assigned the class attribute,
\* and of any exception no handler catches.
HTTP_500_INTERNAL_SERVER_ERROR == 500

\* --------------------------------------------------------------- the state
VARIABLES
    users,        \* registered accounts: records [id, email, username, password]
    profiles,     \* UserProfile rows: records [pk, username_id, active_profile, bio, avatar]
    api_status,   \* the class attribute APIException.status_code
    req,          \* the request served last
    resp,         \* its response: [status, body]
    toggled,      \* per user id, the accepted deactivate/activate served last
    registered,   \* the <<email, password>> pairs that POST /api/users/ answered 201
    pre,          \* the stored state that request was served in
    race          \* two deactivate requests in flight: each one's position and answer

vars == <<users, profiles, api_status, req, resp, toggled, registered, pre, race>>

\* ------------------------------------------------------------ input domains
None == "None"
NoEmail == ""
\* request.user.id of AnonymousUser (no credentials)
Anonymous == 0

\* the two addresses the tests submit, each with its username
Emails == {"caro@yahoo.com", "james@gmail.com"}
Usernames == {"caro", "james"}
\* the password of setUp's payload, and the one test_login_user submits instead
Passwords == {"07921513542", "4567890123"}
\* self.user of setUp for each address: the payload POSTed to /api/users/
Payloads ==
    {[email |-> "caro@yahoo.com", username |-> "caro", password |-> "07921513542"],
     [email |-> "james@gmail.com", username |-> "james", password |-> "07921513542"]}
\* the ids the accounts can get: one per address
AllUserIds == 1..Cardinality(Emails)
\* request.data of the profile endpoints: the avatar and bio keys, None when absent
Datas ==
    {[avatar |-> None, bio |-> None],
     [avatar |-> "pic.png", bio |-> "bio"],
     [avatar |-> "pic.txt", bio |-> "bio"]}
Chars == {"1", "2", "x"}
Identifiers == UNION {[1..n -> Chars] : n \in 1..MaxIdLen}
\* the username_id segment of the edit route, <<>> where the route has none
Urls == {<<>>, <<"1">>}

\* ------------------------------------------------------------- responses
Message(text) == [key |-> "message", message |-> text, email |-> NoEmail, data |-> <<>>]
Errors(text) == [key |-> "errors", message |-> text, email |-> NoEmail, data |-> <<>>]
Detail(text) == [key |-> "detail", message |-> text, email |-> NoEmail, data |-> <<>>]
UserBody(mail) == [key |-> "user", message |-> None, email |-> mail, data |-> <<>>]
ProfileBody(d) == [key |-> "profile", message |-> None, email |-> NoEmail, data |-> d]
ProfilesBody(d) == [key |-> "profiles", message |-> None, email |-> NoEmail, data |-> d]
\* the debug/500 page of an exception that no handler catches
ServerError == [key |-> "traceback", message |-> None, email |-> NoEmail, data |-> <<>>]

\* What a handler leaves behind: the response, the rows and the class attribute.
Outcome(status, body, ps, st) ==
    [status |-> status, body |-> body, profiles |-> ps, api_status |-> st]

\* ------------------------------------------------------------ ORM helpers
UserIds == {u.id : u \in users}
UserById(uid) == CHOOSE u \in users : u.id = uid
\* queryset.filter(username_id=...)
ByUser(ps, uid) == {p \in ps : p.username_id = uid}
\* queryset.filter(username_id=..., active_profile=...)
ByUserActive(ps, uid, flag) == {p \in ByUser(ps, uid) : p.active_profile = flag}
\* queryset.filter(active_profile=True)
ActiveProfiles(ps) == {p \in ps : p.active_profile}
\* queryset.get(): the row, or the exception it raises
Get(qs) ==
    IF qs = {} THEN "DoesNotExist"
    ELSE IF Cardinality(qs) > 1 THEN "MultipleObjectsReturned"
    ELSE "found"
TheRow(qs) == CHOOSE p \in qs : TRUE
NextPk(ps) == IF ps = {} THEN 1 ELSE 1 + CHOOSE k \in {p.pk : p \in ps} : \A q \in ps : q.pk <= k

\* ------------------------------------------------------------- permissions
SafeMethods == {"GET", "HEAD", "OPTIONS"}

\* permission_classes left at AllowAny
permission_classes_open(view) == "AllowAny"

permission_classes(view) ==
    CASE view \in {"create", "edit", "deactivate", "activate"} -> "IsAuthenticated"
      [] view \in {"view", "list"} -> "IsAuthenticatedOrReadOnly"

\* /api/user/ answers 403 without credentials
user_permission_classes == "IsAuthenticated"

has_permission(cls, auth, method) ==
    CASE cls = "IsAuthenticated" -> auth # Anonymous
      [] cls = "IsAuthenticatedOrReadOnly" -> method \in SafeMethods \/ auth # Anonymous
      [] OTHER -> TRUE

NotAuthenticated(ps, st) ==
    Outcome(HTTP_403_FORBIDDEN,
            Detail("Authentication credentials were not provided."), ps, st)

\* APIView.initial(): the permission check runs before the handler
Dispatch(cls, auth, method, ps, st, out) ==
    IF has_permission(cls, auth, method) THEN out ELSE NotAuthenticated(ps, st)

\* ------------------------------------------------------------ serializers
validate_avatar(avatar_name) == avatar_name \in {None, "pic.png"}

\* validate_avatar raising: a client error; whether it raises through the
\* shared APIException class attribute is either way
AvatarRejected(ps, st, leak) ==
    Outcome(HTTP_400_BAD_REQUEST, Message("Invalid avatar"), ps,
            IF leak THEN HTTP_400_BAD_REQUEST ELSE st)

\* UserProfile.active_profile of a row saved without the field
DefaultActiveProfile == TRUE

\* BooleanField.to_internal_value of the strings the handlers submit
ToBoolean(text) == text = "True"

Username(uid) == UserById(uid).username

\* serializer.data of a row
Serialize(p) ==
    [username |-> Username(p.username_id), bio |-> p.bio, avatar |-> p.avatar,
     active_profile |-> p.active_profile]

\* ProfileSerializer.update: the submitted fields replace the stored ones
ApplyEdit(p, data) ==
    [p EXCEPT !.bio = IF data.bio = None THEN @ ELSE data.bio,
              !.avatar = IF data.avatar = None THEN @ ELSE data.avatar]

\* DeactivateSerializer(profile, data).save()
SetActive(p, text) == [p EXCEPT !.active_profile = ToBoolean(text)]

\* the one-to-one constraint of UserProfile.username on insert
IntegrityError(ps, uid) == ByUser(ps, uid) # {}

Raised(out) == [raised |-> TRUE, out |-> out, qs |-> {}]
Returned(qs) == [raised |-> FALSE, out |-> Outcome(0, ServerError, {}, 0), qs |-> qs]

\* ------------------------------------------------ CreateProfileAPIView
\* perform_create with the IntegrityError swallowed: the duplicate answered 201
perform_create_swallow(ps, st, uid, data, leak) ==
    LET inactive == Get(ByUserActive(ps, uid, FALSE))
        row == [pk |-> NextPk(ps), username_id |-> uid,
                active_profile |-> DefaultActiveProfile,
                bio |-> data.bio, avatar |-> data.avatar]
    IN  IF ~validate_avatar(data.avatar) THEN AvatarRejected(ps, st, leak)
        ELSE IF inactive = "found"
        THEN Outcome(st, Message("You deactivated your profile. Please activate to continue"),
                     ps, st)
        ELSE IF inactive = "MultipleObjectsReturned" \/ uid = Anonymous
        THEN Outcome(HTTP_500_INTERNAL_SERVER_ERROR, ServerError, ps, st)
        ELSE IF IntegrityError(ps, uid)
        THEN Outcome(HTTP_201_CREATED, ProfileBody(Serialize(row)), ps, st)
        ELSE Outcome(HTTP_201_CREATED, ProfileBody(Serialize(row)), ps \cup {row}, st)

\* perform_create that validates and answers without calling serializer.save
perform_create_unsaved(ps, st, uid, data, leak) ==
    LET inactive == Get(ByUserActive(ps, uid, FALSE))
        row == [pk |-> NextPk(ps), username_id |-> uid,
                active_profile |-> DefaultActiveProfile,
                bio |-> data.bio, avatar |-> data.avatar]
    IN  IF ~validate_avatar(data.avatar) THEN AvatarRejected(ps, st, leak)
        ELSE IF inactive = "found"
        THEN Outcome(st, Message("You deactivated your profile. Please activate to continue"),
                     ps, st)
        ELSE IF inactive = "MultipleObjectsReturned" \/ uid = Anonymous
        THEN Outcome(HTTP_500_INTERNAL_SERVER_ERROR, ServerError, ps, st)
        ELSE Outcome(HTTP_201_CREATED, ProfileBody(Serialize(row)), ps, st)

\* perform_create calling validate_avatar after the save instead of first
perform_create_validate_last(ps, st, uid, data, leak) ==
    LET inactive == Get(ByUserActive(ps, uid, FALSE))
        row == [pk |-> NextPk(ps), username_id |-> uid,
                active_profile |-> DefaultActiveProfile,
                bio |-> data.bio, avatar |-> data.avatar]
    IN  IF inactive = "found"
        THEN Outcome(st, Message("You deactivated your profile. Please activate to continue"),
                     ps, st)
        ELSE IF inactive = "MultipleObjectsReturned" \/ uid = Anonymous
        THEN Outcome(HTTP_500_INTERNAL_SERVER_ERROR, ServerError, ps, st)
        ELSE IF IntegrityError(ps, uid)
        THEN Outcome(HTTP_400_BAD_REQUEST,
                     Message("A user with this profile already exists"),
                     ps, HTTP_400_BAD_REQUEST)
        ELSE IF ~validate_avatar(data.avatar) THEN AvatarRejected(ps \cup {row}, st, leak)
        ELSE Outcome(HTTP_201_CREATED, ProfileBody(Serialize(row)), ps \cup {row}, st)

perform_create(ps, st, uid, data, leak) ==
    LET inactive == Get(ByUserActive(ps, uid, FALSE))
        row == [pk |-> NextPk(ps), username_id |-> uid,
                active_profile |-> DefaultActiveProfile,
                bio |-> data.bio, avatar |-> data.avatar]
    IN  IF ~validate_avatar(data.avatar) THEN AvatarRejected(ps, st, leak)
        ELSE IF inactive = "found"
        THEN Outcome(st, Message("You deactivated your profile. Please activate to continue"),
                     ps, st)
        ELSE IF inactive = "MultipleObjectsReturned" \/ uid = Anonymous
        THEN Outcome(HTTP_500_INTERNAL_SERVER_ERROR, ServerError, ps, st)
        ELSE IF IntegrityError(ps, uid)
        THEN Outcome(HTTP_400_BAD_REQUEST,
                     Message("A user with this profile already exists"),
                     ps, HTTP_400_BAD_REQUEST)
        ELSE Outcome(HTTP_201_CREATED, ProfileBody(Serialize(row)), ps \cup {row}, st)

\* ------------------------------------------------ EditUserProfileAPIView
\* get_object as inherited: the row self.kwargs['username_id'] names
Edit_get_object_by_url(ps, st, uid, kwargs, data, leak) ==
    LET named == IF kwargs = <<"1">> THEN 1 ELSE uid
        mine == ByUser(ps, named)
    IN  IF data.avatar # None /\ ~validate_avatar(data.avatar)
        THEN Raised(AvatarRejected(ps, st, leak))
        ELSE IF Get(mine) = "DoesNotExist"
        THEN Raised(Outcome(HTTP_404_NOT_FOUND,
                            Message("User profile not found. Please create one"),
                            ps, HTTP_404_NOT_FOUND))
        ELSE IF Get(mine) = "MultipleObjectsReturned"
        THEN Raised(Outcome(HTTP_500_INTERNAL_SERVER_ERROR, ServerError, ps, st))
        ELSE Returned(mine)

\* the requester's row, whatever self.kwargs['username_id'] names
Edit_get_object(ps, st, uid, kwargs, data, leak) ==
    LET mine == ByUser(ps, uid)
    IN  IF data.avatar # None /\ ~validate_avatar(data.avatar)
        THEN Raised(AvatarRejected(ps, st, leak))
        ELSE IF Get(mine) = "DoesNotExist"
        THEN Raised(Outcome(HTTP_404_NOT_FOUND,
                            Message("User profile not found. Please create one"),
                            ps, HTTP_404_NOT_FOUND))
        ELSE IF Get(mine) = "MultipleObjectsReturned"
        THEN Raised(Outcome(HTTP_500_INTERNAL_SERVER_ERROR, ServerError, ps, st))
        ELSE Returned(mine)

Edit_update(ps, st, uid, kwargs, data, leak) ==
    LET got == Edit_get_object(ps, st, uid, kwargs, data, leak)
        old == TheRow(got.qs)
        new == ApplyEdit(old, data)
    IN  IF got.raised THEN got.out
        ELSE Outcome(HTTP_200_OK, ProfileBody(Serialize(new)),
                     (ps \ {old}) \cup {new}, st)

\* ------------------------------------------------ ViewUserProfileAPIView
Digits == {"0", "1", "2", "3", "4", "5", "6", "7", "8", "9"}
DigitValue(c) ==
    CASE c = "0" -> 0 [] c = "1" -> 1 [] c = "2" -> 2 [] c = "3" -> 3 [] c = "4" -> 4
      [] c = "5" -> 5 [] c = "6" -> 6 [] c = "7" -> 7 [] c = "8" -> 8 [] c = "9" -> 9

\* int(username_id) raises ValueError
ValueError(ident) == \E i \in 1..Len(ident) : ident[i] \notin Digits

RECURSIVE int(_)
int(ident) ==
    IF ident = <<>> THEN 0
    ELSE 10 * int(SubSeq(ident, 1, Len(ident) - 1)) + DigitValue(ident[Len(ident)])

\* get_queryset looking the profile up without active_profile=True
View_get_queryset_any(ps, st, ident) ==
    IF ValueError(ident)
    THEN Raised(Outcome(HTTP_400_BAD_REQUEST, Message("User ID must be an integer"),
                        ps, HTTP_400_BAD_REQUEST))
    ELSE IF Get(ByUser(ps, int(ident))) # "found"
    THEN Raised(Outcome(HTTP_404_NOT_FOUND, Message("User profile does not exist"),
                        ps, HTTP_404_NOT_FOUND))
    ELSE Returned(ByUser(ps, int(ident)))

View_get_queryset(ps, st, ident) ==
    IF ValueError(ident)
    THEN Raised(Outcome(HTTP_400_BAD_REQUEST, Message("User ID must be an integer"),
                        ps, HTTP_400_BAD_REQUEST))
    ELSE IF Get(ByUserActive(ps, int(ident), TRUE)) # "found"
    THEN Raised(Outcome(HTTP_404_NOT_FOUND, Message("User profile does not exist"),
                        ps, HTTP_404_NOT_FOUND))
    ELSE Returned(ByUser(ps, int(ident)))

\* RetrieveAPIView.retrieve over the overridden get_queryset
View_retrieve(ps, st, ident) ==
    LET got == View_get_queryset(ps, st, ident)
    IN  IF got.raised THEN got.out
        ELSE IF Get(got.qs) = "MultipleObjectsReturned"
        THEN Outcome(HTTP_500_INTERNAL_SERVER_ERROR, ServerError, ps, st)
        ELSE Outcome(HTTP_200_OK, ProfileBody(Serialize(TheRow(got.qs))), ps, st)

\* ------------------------------------------------ ViewAllProfilesAPIView
\* {obj['username']: obj for obj in serializer.data}: a later row replaces an
\* earlier one under the same key
KeyedByUsername(rows) ==
    [n \in {Username(p.username_id) : p \in rows} |->
        Serialize(CHOOSE p \in rows :
                    /\ Username(p.username_id) = n
                    /\ \A q \in rows : Username(q.username_id) = n => q.pk <= p.pk)]

\* list serializing self.queryset without the active_profile filter
list_unfiltered(ps, st) ==
    IF Get(ActiveProfiles(ps)) = "DoesNotExist"
    THEN Outcome(HTTP_404_NOT_FOUND, Message("No user profiles found"),
                 ps, HTTP_404_NOT_FOUND)
    ELSE Outcome(HTTP_200_OK, ProfilesBody(KeyedByUsername(ps)), ps, st)

\* list without the inner except: MultipleObjectsReturned escapes
list_single(ps, st) ==
    IF Get(ActiveProfiles(ps)) = "DoesNotExist"
    THEN Outcome(HTTP_404_NOT_FOUND, Message("No user profiles found"),
                 ps, HTTP_404_NOT_FOUND)
    ELSE IF Get(ActiveProfiles(ps)) = "MultipleObjectsReturned"
    THEN Outcome(HTTP_500_INTERNAL_SERVER_ERROR, ServerError, ps, st)
    ELSE Outcome(HTTP_200_OK, ProfilesBody(KeyedByUsername(ActiveProfiles(ps))), ps, st)

list(ps, st) ==
    IF Get(ActiveProfiles(ps)) = "DoesNotExist"
    THEN Outcome(HTTP_404_NOT_FOUND, Message("No user profiles found"),
                 ps, HTTP_404_NOT_FOUND)
    ELSE Outcome(HTTP_200_OK, ProfilesBody(KeyedByUsername(ActiveProfiles(ps))), ps, st)

\* ------------------------------------------------ DeactivateProfileAPIView
\* get_object without the already-deactivated check
Deactivate_get_object_unchecked(ps, st, uid) ==
    LET mine == ByUser(ps, uid)
    IN  IF Get(mine) # "found"
        THEN Raised(Outcome(HTTP_404_NOT_FOUND, Message("User profile not found"),
                            ps, HTTP_404_NOT_FOUND))
        ELSE Returned(mine)

\* get_object with queryset.get outside any try: DoesNotExist escapes
Deactivate_get_object_uncaught(ps, st, uid) ==
    LET mine == ByUser(ps, uid)
    IN  IF Get(mine) # "found"
        THEN Raised(Outcome(HTTP_500_INTERNAL_SERVER_ERROR, ServerError, ps, st))
        ELSE IF Get(ByUserActive(ps, uid, FALSE)) = "found"
        THEN Raised(Outcome(HTTP_400_BAD_REQUEST,
                            Message("You deactivated your profile. Please activate to continue"),
                            ps, HTTP_400_BAD_REQUEST))
        ELSE Returned(mine)

Deactivate_get_object(ps, st, uid) ==
    LET mine == ByUser(ps, uid)
    IN  IF Get(mine) # "found"
        THEN Raised(Outcome(HTTP_404_NOT_FOUND, Message("User profile not found"),
                            ps, HTTP_404_NOT_FOUND))
        ELSE IF Get(ByUserActive(ps, uid, FALSE)) = "found"
        THEN Raised(Outcome(HTTP_400_BAD_REQUEST,
                            Message("You deactivated your profile. Please activate to continue"),
                            ps, HTTP_400_BAD_REQUEST))
        ELSE Returned(mine)

Deactivate_update(ps, st, uid) ==
    LET got == Deactivate_get_object(ps, st, uid)
        old == TheRow(got.qs)
        new == SetActive(old, "False")
    IN  IF got.raised THEN got.out
        ELSE Outcome(HTTP_200_OK, ProfileBody(Serialize(new)),
                     (ps \ {old}) \cup {new}, st)

\* ------------------------------------------------ ActivateProfileAPIView
\* get_object without the already-active check
Activate_get_object_unchecked(ps, st, uid) ==
    LET mine == ByUser(ps, uid)
    IN  IF Get(mine) # "found"
        THEN Raised(Outcome(HTTP_404_NOT_FOUND, Message("User profile not found"),
                            ps, HTTP_404_NOT_FOUND))
        ELSE Returned(mine)

Activate_get_object(ps, st, uid) ==
    LET mine == ByUser(ps, uid)
    IN  IF Get(mine) # "found"
        THEN Raised(Outcome(HTTP_404_NOT_FOUND, Message("User profile not found"),
                            ps, HTTP_404_NOT_FOUND))
        ELSE IF Get(ByUserActive(ps, uid, TRUE)) = "found"
        THEN Raised(Outcome(HTTP_400_BAD_REQUEST,
                            Message("Your profile is already active and viewable by other users"),
                            ps, HTTP_400_BAD_REQUEST))
        ELSE Returned(mine)

Activate_update(ps, st, uid) ==
    LET got == Activate_get_object(ps, st, uid)
        old == TheRow(got.qs)
        new == SetActive(old, "True")
    IN  IF got.raised THEN got.out
        ELSE Outcome(HTTP_200_OK, ProfileBody(Serialize(new)),
                     (ps \ {old}) \cup {new}, st)

\* ------------------------------------------------ /api/users/, /api/user/
\* POST /api/users/: the account a payload creates, if it creates one
Registers(us, payload) ==
    /\ payload # {}
    /\ \A p \in payload : \A u \in us : u.email # p.email /\ u.username # p.username

NewUser(us, p) ==
    [id |-> Cardinality(us) + 1, email |-> p.email, username |-> p.username,
     password |-> p.password]

register(us, payload) ==
    IF Registers(us, payload)
    THEN [status |-> HTTP_201_CREATED,
          body |-> UserBody((CHOOSE p \in payload : TRUE).email),
          users |-> us \cup {NewUser(us, CHOOSE p \in payload : TRUE)}]
    ELSE [status |-> HTTP_400_BAD_REQUEST, body |-> Errors("errors"), users |-> us]

\* login that matches the address alone
login_any_password(us, email, password) ==
    IF \E u \in us : u.email = email
    THEN [status |-> HTTP_200_OK, body |-> UserBody(email)]
    ELSE [status |-> HTTP_400_BAD_REQUEST,
          body |-> Errors("Invalid email or password provided.")]

\* POST /api/users/login/
login(us, email, password) ==
    IF \E u \in us : u.email = email /\ u.password = password
    THEN [status |-> HTTP_200_OK, body |-> UserBody(email)]
    ELSE [status |-> HTTP_400_BAD_REQUEST,
          body |-> Errors("Invalid email or password provided.")]

\* GET and PUT /api/user/ with credentials: the account, its identity unchanged
current_user(ps, st, uid) ==
    Outcome(HTTP_200_OK, UserBody(UserById(uid).email), ps, st)

\* ----------------------------------------------------------- the requests
Stored == [users |-> users, profiles |-> profiles, toggled |-> toggled]

\* One request served: its response returned, its effects stored.
Serve(r, out) ==
    /\ req' = r
    /\ resp' = [status |-> out.status, body |-> out.body]
    /\ profiles' = out.profiles
    /\ api_status' = out.api_status
    /\ pre' = Stored
    /\ UNCHANGED race

Credentials == UserIds \cup {Anonymous}

\* The permission check precedes any read of the request: without credentials
\* one body and one route stand for all.
DatasOf(auth) == IF auth = Anonymous THEN {[avatar |-> None, bio |-> None]} ELSE Datas
UrlsOf(auth) == IF auth = Anonymous THEN {<<>>} ELSE Urls

\* the two ways validate_avatar can raise, where it raises at all
LeakChoices(data) == IF validate_avatar(data.avatar) THEN {FALSE} ELSE BOOLEAN

\* the requests in flight of the one-request-at-a-time runs: none
Workers == {1, 2}
InFlight(pc) == [w \in Workers |-> [pc |-> pc, rows |-> {}, status |-> 0, after |-> FALSE]]
Idle == InFlight("idle")

Init ==
    /\ users = {}
    /\ profiles = {}
    /\ api_status = HTTP_500_INTERNAL_SERVER_ERROR
    /\ req = [op |-> "none"]
    /\ resp = [status |-> 0, body |-> Message(None)]
    /\ toggled = [u \in AllUserIds |-> "none"]
    /\ registered = {}
    /\ pre = [users |-> {}, profiles |-> {}, toggled |-> [u \in AllUserIds |-> "none"]]
    /\ race = Idle

Register ==
    \E payload \in {{}} \cup {{p} : p \in Payloads} :
        LET out == register(users, payload)
        IN  /\ users' = out.users
            /\ Serve([op |-> "register", payload |-> payload],
                     Outcome(out.status, out.body, profiles, api_status))
            /\ registered' = registered \cup
                    IF out.status = HTTP_201_CREATED
                    THEN {<<p.email, p.password>> : p \in payload} ELSE {}
            /\ UNCHANGED toggled

Login ==
    \E email \in Emails, password \in Passwords :
        LET out == login(users, email, password)
        IN  /\ Serve([op |-> "login", email |-> email, password |-> password],
                     Outcome(out.status, out.body, profiles, api_status))
            /\ UNCHANGED <<users, toggled, registered>>

CurrentUser ==
    \E auth \in Credentials, method \in {"GET", "PUT"} :
        /\ Serve([op |-> "user", auth |-> auth, method |-> method],
                 Dispatch(user_permission_classes, auth, method, profiles, api_status,
                          current_user(profiles, api_status, auth)))
        /\ UNCHANGED <<users, toggled, registered>>

CreateProfile ==
    \E auth \in Credentials : \E data \in DatasOf(auth) : \E leak \in LeakChoices(data) :
            /\ Serve([op |-> "create", auth |-> auth, method |-> "POST", data |-> data],
                     Dispatch(permission_classes("create"), auth, "POST", profiles, api_status,
                              perform_create(profiles, api_status, auth, data, leak)))
            /\ UNCHANGED <<users, toggled, registered>>

EditProfile ==
    \E auth \in Credentials, method \in {"PUT", "PATCH"} :
      \E url \in UrlsOf(auth), data \in DatasOf(auth) : \E leak \in LeakChoices(data) :
            /\ Serve([op |-> "edit", auth |-> auth, method |-> method, url |-> url,
                      data |-> data],
                     Dispatch(permission_classes("edit"), auth, method, profiles, api_status,
                              Edit_update(profiles, api_status, auth, url, data, leak)))
            /\ UNCHANGED <<users, toggled, registered>>

ViewUserProfile ==
    \E auth \in {Anonymous}, ident \in Identifiers :
        /\ Serve([op |-> "view", auth |-> auth, method |-> "GET", ident |-> ident],
                 Dispatch(permission_classes("view"), auth, "GET", profiles, api_status,
                          View_retrieve(profiles, api_status, ident)))
        /\ UNCHANGED <<users, toggled, registered>>

ViewAllProfiles ==
    \E auth \in {Anonymous} :
        /\ Serve([op |-> "list", auth |-> auth, method |-> "GET"],
                 Dispatch(permission_classes("list"), auth, "GET", profiles, api_status,
                          list(profiles, api_status)))
        /\ UNCHANGED <<users, toggled, registered>>

Toggle(auth, out, name) ==
    IF out.status = HTTP_200_OK THEN [toggled EXCEPT ![auth] = name] ELSE toggled

DeactivateProfile ==
    \E auth \in Credentials :
        LET out == Dispatch(permission_classes("deactivate"), auth, "PUT", profiles, api_status,
                            Deactivate_update(profiles, api_status, auth))
        IN  /\ Serve([op |-> "deactivate", auth |-> auth, method |-> "PUT"], out)
            /\ toggled' = Toggle(auth, out, "deactivate")
            /\ UNCHANGED <<users, registered>>

ActivateProfile ==
    \E auth \in Credentials :
        LET out == Dispatch(permission_classes("activate"), auth, "PUT", profiles, api_status,
                            Activate_update(profiles, api_status, auth))
        IN  /\ Serve([op |-> "activate", auth |-> auth, method |-> "PUT"], out)
            /\ toggled' = Toggle(auth, out, "activate")
            /\ UNCHANGED <<users, registered>>

Next ==
    \/ Register
    \/ Login
    \/ CurrentUser
    \/ CreateProfile
    \/ EditProfile
    \/ ViewUserProfile
    \/ ViewAllProfiles
    \/ DeactivateProfile
    \/ ActivateProfile

Spec == Init /\ [][Next]_vars

\* ------------------------------------------------------------ properties
Authenticated == req.op # "none" /\ req.op \notin {"register", "login"} /\ req.auth # Anonymous
\* the requester's rows before and after the request
Was == ByUser(pre.profiles, req.auth)
Now == ByUser(profiles, req.auth)
WasActive == Was # {} /\ \A p \in Was : p.active_profile
WasInactive == Was # {} /\ \A p \in Was : ~p.active_profile
Unchanged == profiles = pre.profiles /\ users = pre.users
Rejected == resp.status >= 400 /\ resp.body.key = "message"

\* C1: a deactivate by an authenticated user with an ACTIVE profile is accepted
\* and leaves it INACTIVE; with an INACTIVE profile it is rejected with 400 and
\* the profile stays INACTIVE; no deactivate is accepted when the last accepted
\* toggle of that user was a deactivate.
DeactivateOnlyWhenActive ==
    (req.op = "deactivate" /\ Authenticated) =>
        /\ WasActive => /\ resp.status = HTTP_200_OK
                        /\ Now # {} /\ \A p \in Now : ~p.active_profile
        /\ WasInactive => /\ resp.status = HTTP_400_BAD_REQUEST
                          /\ profiles = pre.profiles
        /\ resp.status = HTTP_200_OK => pre.toggled[req.auth] # "deactivate"

\* a second deactivate, with no activate in between, has been answered
SecondDeactivateServed ==
    /\ req.op = "deactivate" /\ Authenticated
    /\ pre.toggled[req.auth] = "deactivate"
    /\ resp.status = HTTP_400_BAD_REQUEST

InactiveProfileRejectsMutation ==
    (req.op \in {"create", "edit", "deactivate"} /\ Authenticated /\ WasInactive) =>
        Rejected /\ profiles = pre.profiles

\* C4: no user has two profile rows, and a create by a user who has a row is
\* rejected with an error and leaves the rows as they were.
AtMostOneProfile ==
    /\ \A u \in UserIds : Cardinality(ByUser(profiles, u)) <= 1
    /\ (req.op = "create" /\ Authenticated /\ Was # {}) =>
            resp.status >= 400 /\ profiles = pre.profiles

\* a create by a user whose profile is ACTIVE was refused as a duplicate
DuplicateCreateServed ==
    /\ req.op = "create" /\ Authenticated /\ WasActive
    /\ validate_avatar(req.data.avatar)
    /\ resp.status = HTTP_400_BAD_REQUEST

\* C5: a successful listing holds, under each username, exactly the profiles
\* whose active_profile is true.
ListShowsExactlyActive ==
    (req.op = "list" /\ resp.status = HTTP_200_OK) =>
        /\ resp.body.key = "profiles"
        /\ DOMAIN resp.body.data = {Username(p.username_id) : p \in ActiveProfiles(profiles)}
        /\ \A p \in ActiveProfiles(profiles) :
                resp.body.data[Username(p.username_id)] = Serialize(p)
        /\ \A p \in profiles \ ActiveProfiles(profiles) :
                Username(p.username_id) \notin DOMAIN resp.body.data

\* a listing was served while one profile was ACTIVE and another INACTIVE
ListWithInactiveServed ==
    /\ req.op = "list" /\ resp.status = HTTP_200_OK
    /\ \E p, q \in profiles : p.active_profile /\ ~q.active_profile

\* C6: retrieve-by-id answers 400 to a non-numeric identifier, 404 to a numeric
\* one with no ACTIVE profile, and otherwise, without credentials, 200 with the
\* ACTIVE profile of that user id; it changes no stored user or profile.
RetrieveOnlyActive ==
    req.op = "view" =>
        LET active == IF ValueError(req.ident) THEN {}
                      ELSE ByUserActive(pre.profiles, int(req.ident), TRUE)
        IN  /\ Unchanged
            /\ req.auth = Anonymous
            /\ ValueError(req.ident) => resp.status = HTTP_400_BAD_REQUEST
            /\ (~ValueError(req.ident) /\ active = {}) => resp.status = HTTP_404_NOT_FOUND
            /\ active # {} =>
                    /\ resp.status = HTTP_200_OK
                    /\ \E p \in active : resp.body.data = Serialize(p)

\* an INACTIVE profile was asked for by its id and not found
RetrieveInactiveServed ==
    /\ req.op = "view" /\ ~ValueError(req.ident)
    /\ ByUserActive(profiles, int(req.ident), FALSE) # {}
    /\ resp.status = HTTP_404_NOT_FOUND

\* The domain rules a profile request can break, told from the request and the
\* state it was served in.
DuplicateProfile == req.op = "create" /\ Authenticated /\ WasActive
CreateWhileDeactivated == req.op = "create" /\ Authenticated /\ WasInactive
ProfileNotFound == req.op \in {"edit", "deactivate", "activate"} /\ Authenticated /\ Was = {}
DeactivateWhenInactive == req.op = "deactivate" /\ Authenticated /\ WasInactive
ActivateWhenActive == req.op = "activate" /\ Authenticated /\ WasActive
NonNumericId == req.op = "view" /\ ValueError(req.ident)
RetrieveNotFound ==
    /\ req.op = "view" /\ ~ValueError(req.ident)
    /\ ByUserActive(pre.profiles, int(req.ident), TRUE) = {}
NoProfilesToList == req.op = "list" /\ ActiveProfiles(pre.profiles) = {}
ValidAvatarSent == req.op \notin {"create", "edit"} \/ validate_avatar(req.data.avatar)

DomainRuleViolation ==
    /\ req.op \in {"create", "edit", "view", "list", "deactivate", "activate"}
    /\ ValidAvatarSent
    /\ \/ DuplicateProfile \/ CreateWhileDeactivated \/ ProfileNotFound
       \/ DeactivateWhenInactive \/ ActivateWhenActive
       \/ NonNumericId \/ RetrieveNotFound \/ NoProfilesToList

\* C7: every rejection of a profile request for a domain-rule violation carries
\* status 400 or 404 and a body with a message key.
DomainRejectionsAreClientErrors ==
    DomainRuleViolation =>
        /\ resp.status \in {HTTP_400_BAD_REQUEST, HTTP_404_NOT_FOUND}
        /\ resp.body.key = "message"

\* C8: a request without credentials to create, edit, deactivate or activate a
\* profile, or to GET or PUT /api/user/, is answered 403 and leaves the stored
\* users and profiles as they were.
NoCredentialsForbidden ==
    (req.op \in {"create", "edit", "deactivate", "activate", "user"} /\ req.auth = Anonymous) =>
        resp.status = HTTP_403_FORBIDDEN /\ Unchanged

\* a profile mutation without credentials was refused with accounts and
\* profiles stored
NoCredentialsServed ==
    /\ req.op \in {"create", "edit", "deactivate", "activate"} /\ req.auth = Anonymous
    /\ users # {} /\ profiles # {}
    /\ resp.status = HTTP_403_FORBIDDEN

IdentOf(uid) == <<CHOOSE c \in Digits : DigitValue(c) = uid>>

\* C9: after an accepted create by a user who had no profile, that user has a
\* profile with active_profile true, which retrieve-by-id returns and the
\* listing holds.
CreatedProfileIsActive ==
    (req.op = "create" /\ resp.status = HTTP_201_CREATED /\ Was = {}) =>
        /\ Now # {} /\ \A p \in Now : p.active_profile
        /\ View_retrieve(profiles, api_status, IdentOf(req.auth)).status = HTTP_200_OK
        /\ \E p \in Now :
                View_retrieve(profiles, api_status, IdentOf(req.auth)).body.data = Serialize(p)
        /\ list(profiles, api_status).status = HTTP_200_OK
        /\ Username(req.auth) \in DOMAIN list(profiles, api_status).body.data

\* a create by a user without a profile was accepted
CreateAccepted ==
    /\ req.op = "create" /\ Authenticated /\ Was = {}
    /\ resp.status = HTTP_201_CREATED

\* C10: a login is answered 200 with the address exactly when POST /api/users/
\* answered 201 to that address and password before, and 400 with an errors
\* body otherwise; a 201 echoes the submitted address.
LoginIffRegistered ==
    /\ req.op = "login" =>
        /\ resp.status = HTTP_200_OK <=> <<req.email, req.password>> \in registered
        /\ resp.status = HTTP_200_OK => resp.body.key = "user" /\ resp.body.email = req.email
        /\ resp.status # HTTP_200_OK =>
                resp.status = HTTP_400_BAD_REQUEST /\ resp.body.key = "errors"
    /\ (req.op = "register" /\ resp.status = HTTP_201_CREATED) =>
        \A p \in req.payload : resp.body.email = p.email /\ <<p.email, p.password>> \in registered
    /\ (req.op = "register" /\ req.payload = {}) =>
        resp.status = HTTP_400_BAD_REQUEST /\ users = pre.users

\* a login with the right address and the wrong password was refused
WrongPasswordServed ==
    /\ req.op = "login" /\ resp.status = HTTP_400_BAD_REQUEST
    /\ \E u \in users : u.email = req.email /\ u.password # req.password

\* The response of the profile handlers to request r over the rows ps, in a
\* process whose APIException.status_code holds st.
Answer(r, ps, st) ==
    LET handled ==
            CASE r.op = "create" -> perform_create(ps, st, r.auth, r.data, FALSE)
              [] r.op = "edit" -> Edit_update(ps, st, r.auth, r.url, r.data, FALSE)
              [] r.op = "view" -> View_retrieve(ps, st, r.ident)
              [] r.op = "list" -> list(ps, st)
              [] r.op = "deactivate" -> Deactivate_update(ps, st, r.auth)
              [] r.op = "activate" -> Activate_update(ps, st, r.auth)
        out == Dispatch(permission_classes(r.op), r.auth, r.method, ps, st, handled)
    IN  [status |-> out.status, body |-> out.body]

ProfileOps == {"create", "edit", "view", "list", "deactivate", "activate"}
\* the values earlier error responses leave in APIException.status_code; each
\* is reachable over any stored users and profiles (a retrieve of "x" leaves
\* 400, a retrieve of an unknown id 404, accepted requests leave it alone)
StatusValues ==
    {HTTP_500_INTERNAL_SERVER_ERROR, HTTP_400_BAD_REQUEST, HTTP_404_NOT_FOUND}

\* C11: the response to a profile request is the same after every history that
\* leads to the stored users and profiles it was served in: it does not vary
\* with the value earlier error responses left in the process.
HandlersStateless ==
    req.op \in ProfileOps =>
        \A st \in StatusValues : Answer(req, pre.profiles, st) = resp

InvalidAvatarSent ==
    req.op \in {"create", "edit"} /\ Authenticated /\ ~validate_avatar(req.data.avatar)

\* C12: a create or edit request whose avatar fails validation is answered with
\* the avatar error, whatever profile the requester has or lacks (not with the
\* deactivated, duplicate or not-found error), and stores nothing.
InvalidAvatarRejectedFirst ==
    InvalidAvatarSent =>
        /\ resp.status = HTTP_400_BAD_REQUEST
        /\ resp.body = Message("Invalid avatar")
        /\ profiles = pre.profiles

\* a create with an invalid avatar, by a user with no profile, was refused
InvalidAvatarCreateServed ==
    /\ InvalidAvatarSent /\ req.op = "create" /\ Was = {}
    /\ resp.status = HTTP_400_BAD_REQUEST

NotFoundMessages == {"User profile not found", "User profile not found. Please create one"}
NotFoundAnswered ==
    /\ resp.status = HTTP_404_NOT_FOUND
    /\ resp.body.key = "message" /\ resp.body.message \in NotFoundMessages
    /\ profiles = pre.profiles

\* C13 as stated: every edit, deactivate or activate request by an
\* authenticated user with no profile is answered 404 with a profile-not-found
\* message and creates no profile.
NoProfileIsNotFound ==
    (req.op \in {"edit", "deactivate", "activate"} /\ Authenticated /\ Was = {}) =>
        NotFoundAnswered

\* C13: a deactivate or activate request, or an edit request whose avatar is
\* absent or valid, by an authenticated user with no profile is answered 404
\* with a profile-not-found message and creates no profile; an edit with an
\* invalid avatar is answered with the avatar error and creates none either.
NoProfileIsNotFoundUnlessAvatar ==
    (req.op \in {"edit", "deactivate", "activate"} /\ Authenticated /\ Was = {}) =>
        IF ValidAvatarSent THEN NotFoundAnswered
        ELSE resp.body = Message("Invalid avatar") /\ profiles = pre.profiles

\* a deactivate by a user with no profile was answered not-found
DeactivateWithoutProfileServed ==
    /\ req.op = "deactivate" /\ Authenticated /\ Was = {}
    /\ resp.status = HTTP_404_NOT_FOUND

\* C14: the listing is answered 404 with 'No user profiles found' exactly when
\* no profile is ACTIVE, and 200 with a non-empty profiles mapping otherwise,
\* with one ACTIVE profile or several.
ListNotFoundIffNoneActive ==
    req.op = "list" =>
        /\ ActiveProfiles(pre.profiles) = {} =>
                /\ resp.status = HTTP_404_NOT_FOUND
                /\ resp.body = Message("No user profiles found")
        /\ ActiveProfiles(pre.profiles) # {} =>
                /\ resp.status = HTTP_200_OK
                /\ resp.body.key = "profiles"
                /\ DOMAIN resp.body.data # {}

\* a listing was served with two profiles ACTIVE
ListOfSeveralServed ==
    /\ req.op = "list" /\ resp.status = HTTP_200_OK
    /\ Cardinality(ActiveProfiles(profiles)) > 1

OthersOf(ps, uid) == {p \in ps : p.username_id # uid}

\* C15: an edit, deactivate or activate request by an authenticated user leaves
\* the profile rows of every other user as they were, whatever username_id the
\* route carries.
OnlyRequesterProfileTouched ==
    (req.op \in {"edit", "deactivate", "activate"} /\ Authenticated) =>
        OthersOf(profiles, req.auth) = OthersOf(pre.profiles, req.auth)

\* an edit whose route names another user's profile changed the requester's own
EditUnderOtherIdServed ==
    /\ req.op = "edit" /\ Authenticated /\ resp.status = HTTP_200_OK
    /\ req.url # <<>> /\ int(req.url) # req.auth
    /\ ByUser(profiles, int(req.url)) # {}
    /\ Now # Was

\* ------------------------------------------- two deactivate requests at once
\* Both accounts registered; the requester's profile ACTIVE, the other user's
\* absent, ACTIVE or INACTIVE; the class attribute as any earlier response
\* left it.
BothUsers ==
    {[id |-> 1, email |-> "caro@yahoo.com", username |-> "caro", password |-> "07921513542"],
     [id |-> 2, email |-> "james@gmail.com", username |-> "james", password |-> "07921513542"]}

RaceProfiles(u) ==
    {{[pk |-> 1, username_id |-> u, active_profile |-> TRUE, bio |-> d.bio, avatar |-> d.avatar]}
        \cup others :
        d \in {x \in Datas : validate_avatar(x.avatar)},
        others \in {{}} \cup
            {{[pk |-> 2, username_id |-> 3 - u, active_profile |-> a,
               bio |-> None, avatar |-> None]} : a \in BOOLEAN}}

RaceInit ==
    \E u \in AllUserIds :
        /\ users = BothUsers
        /\ profiles \in RaceProfiles(u)
        /\ api_status \in StatusValues
        /\ req = [op |-> "deactivate", auth |-> u, method |-> "PUT"]
        /\ resp = [status |-> 0, body |-> Message(None)]
        /\ toggled = [v \in AllUserIds |-> "none"]
        /\ registered = {<<a.email, a.password>> : a \in BothUsers}
        /\ pre = [users |-> BothUsers, profiles |-> profiles, toggled |-> toggled]
        /\ race = InFlight("start")

Other(w) == CHOOSE v \in Workers : v # w

\* update(): profile = self.get_object()
RaceGetObject ==
    \E w \in Workers :
        /\ race[w].pc = "start"
        /\ LET got == Deactivate_get_object(profiles, api_status, req.auth)
               saved == race[Other(w)].pc = "done" /\ race[Other(w)].status = HTTP_200_OK
           IN  IF got.raised
               THEN /\ race' = [race EXCEPT ![w] = [pc |-> "done", rows |-> {},
                                                   status |-> got.out.status,
                                                   after |-> saved]]
                    /\ api_status' = got.out.api_status
               ELSE /\ race' = [race EXCEPT ![w] = [pc |-> "fetched", rows |-> got.qs,
                                                   status |-> 0, after |-> saved]]
                    /\ UNCHANGED api_status
        /\ UNCHANGED <<users, profiles, req, resp, toggled, registered, pre>>

\* update(): serializer.save() of the row fetched, and the 200 response
RaceSave ==
    \E w \in Workers :
        /\ race[w].pc = "fetched"
        /\ LET old == TheRow(race[w].rows)
               new == SetActive(old, "False")
           IN  /\ profiles' = {p \in profiles : p.pk # old.pk} \cup {new}
               /\ race' = [race EXCEPT ![w].pc = "done", ![w].status = HTTP_200_OK]
        /\ UNCHANGED <<users, api_status, req, resp, toggled, registered, pre>>

RaceNext == RaceGetObject \/ RaceSave

RaceSpec == RaceInit /\ [][RaceNext]_vars

BothAnswered == \A w \in Workers : race[w].pc = "done"
Accepted == {w \in Workers : race[w].status = HTTP_200_OK}
RequesterInactive ==
    /\ ByUser(profiles, req.auth) # {}
    /\ \A p \in ByUser(profiles, req.auth) : ~p.active_profile

\* C16: of two deactivate requests by one user for the same ACTIVE profile,
\* handled at once with lookup and save as separate steps, one is accepted with
\* 200 and the other rejected as already deactivated, and the profile ends
\* INACTIVE.
RaceAcceptsAtMostOne ==
    BothAnswered =>
        /\ Cardinality(Accepted) <= 1
        /\ \A w \in Workers \ Accepted : race[w].status = HTTP_400_BAD_REQUEST
        /\ RequesterInactive

\* What the two requests do end in: each 200 or 400, rejected exactly when its
\* lookup followed the other's save, one accepted at least, the profile
\* INACTIVE and the other user's rows untouched.
RaceOutcomes ==
    /\ \A w \in Workers : race[w].pc = "done" =>
            /\ race[w].status \in {HTTP_200_OK, HTTP_400_BAD_REQUEST}
            /\ race[w].status = HTTP_400_BAD_REQUEST <=> race[w].after
    /\ BothAnswered => Accepted # {} /\ RequesterInactive
    /\ OthersOf(profiles, req.auth) = OthersOf(pre.profiles, req.auth)

====
